---- MODULE Spec2Model ----
(***************************************************************************)
(* Model of the two services of the repository:                            *)
(*   - KoreanEmbeddingService (src/backend/services/korean_embeddings.py): *)
(*     the disk cache, encode_single, encode_batch, clear_cache,           *)
(*     similarity and find_most_similar, and two concurrent encode_single  *)
(*     calls;                                                              *)
(*   - GeminiRAGService and its FastAPI endpoints                          *)
(*     (src/services/korean-rag-gemini-service.py).                        *)
(* A text is a sequence of characters.  A vector is a function             *)
(* 1..EmbeddingDim -> Int.  The external embedding model is a function of  *)
(* the text (ModelVec) whose invocation may raise.  The file system may    *)
(* fail a cache write or the removal of the cache directory.               *)
(***************************************************************************)
EXTENDS Integers, Sequences, FiniteSets, TLC

\* ------------------------------------------------------------------ bounds
\* longest list handed to encode_batch
MaxBatch == 3
\* largest batch_size handed to encode_batch (the code's default is 32)
MaxBatchSize == 2
\* self.embedding_dim, read off the model when it is loaded
EmbeddingDim == 2

\* ------------------------------------------------------------------ texts
Whitespace == {" "}

\* The texts the callers use: empty, whitespace-only, and two non-blank texts,
\* one of them with leading whitespace.
Texts == {<<>>, <<" ">>, <<"a">>, <<" ", "b">>}

RECURSIVE LStrip(_)
LStrip(s) == IF s # <<>> /\ Head(s) \in Whitespace THEN LStrip(Tail(s)) ELSE s

RECURSIVE RStrip(_)
RStrip(s) ==
    IF s # <<>> /\ s[Len(s)] \in Whitespace
    THEN RStrip(SubSeq(s, 1, Len(s) - 1))
    ELSE s

\* str.strip()
Strip(s) == RStrip(LStrip(s))

\* a plausible slip: only the empty string counts as blank
IsBlankOnlyEmpty(text) == text = <<>>

\* `not text or not text.strip()`
IsBlank(text) == text = <<>> \/ Strip(text) = <<>>

NonBlankTexts == {t \in Texts : ~IsBlank(t)}

\* ---------------------------------------------------------------- vectors
\* np.zeros(self.embedding_dim)
ZeroVec == [i \in 1..EmbeddingDim |-> 0]

\* Python's None: the placeholder of encode_batch and the miss of _get_from_cache
NoneVal == <<>>

CharCode(c) == CASE c = " " -> 1 [] c = "a" -> 2 [] c = "b" -> 3

RECURSIVE TextCode(_)
TextCode(s) == IF s = <<>> THEN 0 ELSE CharCode(Head(s)) + 4 * TextCode(Tail(s))

\* the vector the embedding model computes for one text: a function of the
\* text, never the zero vector (the output is length-normalised)
ModelVec(text) == [i \in 1..EmbeddingDim |-> IF i = 1 THEN TextCode(text) ELSE 1]

\* self.model.encode(batch, ...): one vector per text, in order
ModelEncode(batch) == [j \in 1..Len(batch) |-> ModelVec(batch[j])]

\* ------------------------------------------------------------------ cache
ModelName == "jhgan/ko-sroberta-multitask"

\* a slip: the key forgets the text
CacheKeyModelOnly(text) == <<ModelName, <<>>>>

\* hashlib.md5(f"{self.model_name}:{text}") : injective on (model name, text)
_get_cache_key(text) == <<ModelName, text>>

Keys == {_get_cache_key(t) : t \in Texts}

\* one file of the cache directory: missing, unreadable, or holding a vector
Absent == [st |-> "absent", val |-> NoneVal]
Corrupt == [st |-> "corrupt", val |-> NoneVal]
Stored(v) == [st |-> "ok", val |-> v]

EmptyCache == [k \in Keys |-> Absent]

\* a slip: a file that cannot be unpickled is read as the zero vector
GetFromCacheZeroOnError(c, cache_key) ==
    IF c[cache_key].st = "ok" THEN c[cache_key].val
    ELSE IF c[cache_key].st = "corrupt" THEN ZeroVec
    ELSE NoneVal

\* a slip: the lookup never finds anything
GetFromCacheNever(c, cache_key) == NoneVal

\* _get_from_cache: the stored vector, None when the file is missing or when
\* pickle.load raises
_get_from_cache(c, cache_key) ==
    IF c[cache_key].st = "ok" THEN c[cache_key].val ELSE NoneVal

\* what one write can do: succeed; fail at open() and leave the file as it
\* was; fail in pickle.dump after open() truncated the file
SaveOutcomes == {"ok", "denied", "torn"}

\* _save_to_cache: the exception of a failed write is logged and swallowed
_save_to_cache(c, cache_key, embedding, outcome) ==
    CASE outcome = "ok" -> [c EXCEPT ![cache_key] = Stored(embedding)]
      [] outcome = "denied" -> c
      [] outcome = "torn" -> [c EXCEPT ![cache_key] = Corrupt]

\* open(cache_file, 'wb') of _save_to_cache: the file is created or truncated;
\* when open raises, the file is left as it was
open_for_write(c, cache_key, ok) ==
    IF ok THEN [c EXCEPT ![cache_key] = Corrupt] ELSE c

\* pickle.dump(embedding, f) and the close of the file opened before: the
\* file holds the vector; when the dump raises, the file is left as it is
dump_to_file(c, cache_key, embedding, ok) ==
    IF ok THEN [c EXCEPT ![cache_key] = Stored(embedding)] ELSE c

\* the files of the cache directory
Entries(c) == {k \in Keys : c[k].st # "absent"}
Readable(c) == {k \in Keys : c[k].st = "ok"}

\* ------------------------------------------------------------- event log
\* what an operation did, in order: cache lookups, model invocations, writes
GetEv(k, hit) == [ev |-> "get", key |-> k, batch |-> <<>>, ok |-> hit]
ModelEv(b, ok) == [ev |-> "model", key |-> <<>>, batch |-> b, ok |-> ok]
PutEv(k, o) == [ev |-> "put", key |-> k, batch |-> <<>>, ok |-> (o = "ok")]

\* ---------------------------------------------------------- encode_single
\* The outcome of a call: the value returned, the cache afterwards, the log,
\* whether the model invocation raised (caught inside), and whether an
\* exception reached the caller.
Outcome(ret, c, log, failed) ==
    [ret |-> ret, cache |-> c, log |-> log, failed |-> failed, raised |-> FALSE]

\* a slip: the except branch logs and re-raises
SingleExceptReraise(c, text, lookups) ==
    [ret |-> NoneVal, cache |-> c,
     log |-> lookups \o <<ModelEv(<<text>>, FALSE)>>,
     failed |-> TRUE, raised |-> TRUE]

\* a slip: the except branch stores the zero vector it returns
SingleExceptStoresZero(c, text, lookups) ==
    Outcome(ZeroVec, [c EXCEPT ![_get_cache_key(text)] = Stored(ZeroVec)],
            lookups \o <<ModelEv(<<text>>, FALSE)>>, TRUE)

\* lines 123-125: the except branch of encode_single
SingleExcept(c, text, lookups) ==
    Outcome(ZeroVec, c, lookups \o <<ModelEv(<<text>>, FALSE)>>, TRUE)

\* encode_single(text, use_cache); modelOk: the model invocation returns,
\* saveOutcome: what the cache write does
encode_single(c, text, use_cache, modelOk, saveOutcome) ==
    IF IsBlank(text)
    THEN Outcome(ZeroVec, c, <<>>, FALSE)
    ELSE LET cache_key == _get_cache_key(text)
             cached_embedding ==
                 IF use_cache THEN _get_from_cache(c, cache_key) ELSE NoneVal
             lookups ==
                 IF use_cache
                 THEN <<GetEv(cache_key, cached_embedding # NoneVal)>>
                 ELSE <<>>
         IN  IF use_cache /\ cached_embedding # NoneVal
             THEN Outcome(cached_embedding, c, lookups, FALSE)
             ELSE IF ~modelOk
             THEN SingleExcept(c, text, lookups)
             ELSE LET embedding == ModelEncode(<<text>>)[1]
                  IN  IF use_cache
                      THEN Outcome(embedding,
                               _save_to_cache(c, cache_key, embedding, saveOutcome),
                               lookups \o <<ModelEv(<<text>>, TRUE),
                                            PutEv(cache_key, saveOutcome)>>,
                               FALSE)
                      ELSE Outcome(embedding, c,
                               lookups \o <<ModelEv(<<text>>, TRUE)>>, FALSE)

\* ----------------------------------------------------------- encode_batch
\* lines 145-165: the first loop.  acc holds embeddings, uncached_texts,
\* uncached_indices and the log; positions are 1-based here.
RECURSIVE LookupLoop(_, _, _, _, _)
LookupLoop(c, txts, use_cache, i, acc) ==
    IF i > Len(txts) THEN acc
    ELSE LET text == txts[i]
             cache_key == _get_cache_key(text)
             cached_embedding ==
                 IF use_cache THEN _get_from_cache(c, cache_key) ELSE NoneVal
         IN  IF IsBlank(text)
             THEN LookupLoop(c, txts, use_cache, i + 1,
                      [acc EXCEPT !.embeddings = Append(@, ZeroVec)])
             ELSE IF use_cache /\ cached_embedding # NoneVal
             THEN LookupLoop(c, txts, use_cache, i + 1,
                      [acc EXCEPT !.embeddings = Append(@, cached_embedding),
                                  !.log = Append(@, GetEv(cache_key, TRUE))])
             ELSE LookupLoop(c, txts, use_cache, i + 1,
                      [acc EXCEPT !.embeddings = Append(@, NoneVal),
                                  !.uncached_texts = Append(@, text),
                                  !.uncached_indices = Append(@, i),
                                  !.log = IF use_cache
                                          THEN Append(@, GetEv(cache_key, FALSE))
                                          ELSE @])

\* a slip: the first loop looks every text up, whatever use_cache says
LookupIgnoresUseCache(c, txts, use_cache) ==
    LookupLoop(c, txts, TRUE, 1,
        [embeddings |-> <<>>, uncached_texts |-> <<>>,
         uncached_indices |-> <<>>, log |-> <<>>])

Lookup(c, txts, use_cache) ==
    LookupLoop(c, txts, use_cache, 1,
        [embeddings |-> <<>>, uncached_texts |-> <<>>,
         uncached_indices |-> <<>>, log |-> <<>>])

Min(a, b) == IF a < b THEN a ELSE b

\* a slip: the last, shorter chunk is dropped
NumChunksFloor(n, batch_size) == n \div batch_size

\* the number of iterations of `for i in range(0, len(uncached_texts), batch_size)`
NumChunks(n, batch_size) == (n + batch_size - 1) \div batch_size

\* uncached_texts[i:i+batch_size] of the k-th iteration (k = 1, 2, ...)
Chunk(uncached_texts, batch_size, k) ==
    SubSeq(uncached_texts, (k - 1) * batch_size + 1,
           Min(k * batch_size, Len(uncached_texts)))

\* lines 172-180: the model is invoked chunk by chunk; the invocation of
\* chunk failAt raises (failAt = 0: none does)
RECURSIVE ModelLoop(_, _, _, _, _)
ModelLoop(uncached_texts, batch_size, k, failAt, acc) ==
    IF k > NumChunks(Len(uncached_texts), batch_size) THEN acc
    ELSE LET batch == Chunk(uncached_texts, batch_size, k)
         IN  IF k = failAt
             THEN [acc EXCEPT !.failed = TRUE,
                              !.log = Append(@, ModelEv(batch, FALSE))]
             ELSE ModelLoop(uncached_texts, batch_size, k + 1, failAt,
                      [acc EXCEPT !.batch_embeddings = @ \o ModelEncode(batch),
                                  !.log = Append(@, ModelEv(batch, TRUE))])

\* list.index(x): the first position holding x
IndexOf(seq, x) ==
    CHOOSE j \in 1..Len(seq) : seq[j] = x /\ \A m \in 1..(j - 1) : seq[m] # x

\* a slip: the position is found again by searching the pending texts for
\* the text, which finds the first of two equal texts both times
RECURSIVE ScatterByTextSearch(_, _, _, _, _, _)
ScatterByTextSearch(p, batch_embeddings, use_cache, saveOut, j, acc) ==
    IF j > Min(Len(p.uncached_indices), Len(batch_embeddings)) THEN acc
    ELSE LET idx == p.uncached_indices[IndexOf(p.uncached_texts, p.uncached_texts[j])]
             embedding == batch_embeddings[j]
             cache_key == _get_cache_key(p.uncached_texts[j])
         IN  ScatterByTextSearch(p, batch_embeddings, use_cache, saveOut, j + 1,
                 IF use_cache
                 THEN [acc EXCEPT
                          !.embeddings[idx] = embedding,
                          !.cache = _save_to_cache(@, cache_key, embedding, saveOut[j]),
                          !.log = Append(@, PutEv(cache_key, saveOut[j]))]
                 ELSE [acc EXCEPT !.embeddings[idx] = embedding])

\* a slip: the key is always that of the first pending text
RECURSIVE ScatterKeyOfFirstText(_, _, _, _, _, _)
ScatterKeyOfFirstText(p, batch_embeddings, use_cache, saveOut, j, acc) ==
    IF j > Min(Len(p.uncached_indices), Len(batch_embeddings)) THEN acc
    ELSE LET idx == p.uncached_indices[j]
             embedding == batch_embeddings[j]
             cache_key == _get_cache_key(p.uncached_texts[1])
         IN  ScatterKeyOfFirstText(p, batch_embeddings, use_cache, saveOut, j + 1,
                 IF use_cache
                 THEN [acc EXCEPT
                          !.embeddings[idx] = embedding,
                          !.cache = _save_to_cache(@, cache_key, embedding, saveOut[j]),
                          !.log = Append(@, PutEv(cache_key, saveOut[j]))]
                 ELSE [acc EXCEPT !.embeddings[idx] = embedding])

\* lines 183-188: zip(uncached_indices, batch_embeddings), scatter and store;
\* p holds uncached_texts and uncached_indices of the first loop
RECURSIVE ScatterLoop(_, _, _, _, _, _)
ScatterLoop(p, batch_embeddings, use_cache, saveOut, j, acc) ==
    IF j > Min(Len(p.uncached_indices), Len(batch_embeddings)) THEN acc
    ELSE LET idx == p.uncached_indices[j]
             embedding == batch_embeddings[j]
             cache_key ==
                 _get_cache_key(
                     p.uncached_texts[IndexOf(p.uncached_indices, idx)])
         IN  ScatterLoop(p, batch_embeddings, use_cache, saveOut, j + 1,
                 IF use_cache
                 THEN [acc EXCEPT
                          !.embeddings[idx] = embedding,
                          !.cache = _save_to_cache(@, cache_key, embedding, saveOut[j]),
                          !.log = Append(@, PutEv(cache_key, saveOut[j]))]
                 ELSE [acc EXCEPT !.embeddings[idx] = embedding])

\* a slip: the except branch only logs
FillZerosNone(embeddings, uncached_indices) == embeddings

\* lines 193-195: the except branch
FillZeros(embeddings, uncached_indices) ==
    [i \in 1..Len(embeddings) |->
        IF (\E j \in 1..Len(uncached_indices) : uncached_indices[j] = i)
           /\ embeddings[i] = NoneVal
        THEN ZeroVec
        ELSE embeddings[i]]

\* a slip: the chunks computed before a failing one are scattered and stored
EncodeBatchKeepsPartial(c, txts, batch_size, use_cache, failAt, saveOut) ==
    IF txts = <<>> THEN Outcome(<<>>, c, <<>>, FALSE)
    ELSE LET p == Lookup(c, txts, use_cache)
             m == ModelLoop(p.uncached_texts, batch_size, 1, failAt,
                      [batch_embeddings |-> <<>>, failed |-> FALSE, log |-> p.log])
             s == ScatterLoop(p, m.batch_embeddings, use_cache,
                      IF m.failed
                      THEN [j \in 1..Len(p.uncached_texts) |-> "ok"]
                      ELSE saveOut,
                      1, [embeddings |-> p.embeddings, cache |-> c, log |-> m.log])
         IN  IF p.uncached_texts = <<>>
             THEN Outcome(p.embeddings, c, p.log, FALSE)
             ELSE Outcome(FillZeros(s.embeddings, p.uncached_indices),
                          s.cache, s.log, m.failed)

\* encode_batch(texts, batch_size, use_cache)
encode_batch(c, txts, batch_size, use_cache, failAt, saveOut) ==
    IF txts = <<>> THEN Outcome(<<>>, c, <<>>, FALSE)
    ELSE LET p == Lookup(c, txts, use_cache)
         IN  IF p.uncached_texts = <<>>
             THEN Outcome(p.embeddings, c, p.log, FALSE)
             ELSE LET m == ModelLoop(p.uncached_texts, batch_size, 1, failAt,
                               [batch_embeddings |-> <<>>, failed |-> FALSE,
                                log |-> p.log])
                  IN  IF m.failed
                      THEN Outcome(FillZeros(p.embeddings, p.uncached_indices),
                                   c, m.log, TRUE)
                      ELSE LET s == ScatterLoop(p, m.batch_embeddings,
                                        use_cache, saveOut, 1,
                                        [embeddings |-> p.embeddings,
                                         cache |-> c, log |-> m.log])
                           IN  Outcome(s.embeddings, s.cache, s.log, FALSE)

\* ------------------------------------------------------------ clear_cache
\* a slip: the directory is created but never emptied
ClearCacheKeepsFiles(c, removalOk, kept) == c

\* shutil.rmtree(cache_dir) then mkdir: every file goes; when the removal
\* raises part-way (logged, not raised) the files in kept are still there
clear_cache(c, removalOk, kept) ==
    IF removalOk THEN EmptyCache
    ELSE [k \in Keys |-> IF k \in kept THEN c[k] ELSE Absent]

\* ------------------------------------------------- similarity and ranking
\* batch_size of encode_batch when the caller gives none
DefaultBatchSize == 32

RECURSIVE DotUpTo(_, _, _)
DotUpTo(u, v, d) == IF d = 0 THEN 0 ELSE u[d] * v[d] + DotUpTo(u, v, d - 1)

\* np.dot of two vectors of length embedding_dim
Dot(u, v) == DotUpTo(u, v, EmbeddingDim)

\* the method strings the callers pass
Methods == {"cosine", "dot", "Cosine", "euclidean", ""}

\* a score: the dot product and the square of what it is divided by, that is
\* dot / sqrt(normsq); normsq = 0 is the 0/0 of two zero norms (nan, no
\* exception)
Score(dot, normsq) == [dot |-> dot, normsq |-> normsq]

\* the outcome of similarity and find_most_similar: as Outcome, and the
\* vectors the call obtained
SimOutcome(ret, e, embedded, raised) ==
    [ret |-> ret, cache |-> e.cache, log |-> e.log, failed |-> e.failed,
     raised |-> raised, embedded |-> embedded]

\* a slip: an unknown method falls through to the cosine
SimilarityDefaultsToCosine(c, text1, text2, method, ok1, so1, ok2, so2) ==
    LET e1 == encode_single(c, text1, TRUE, ok1, so1)
        e2 == encode_single(e1.cache, text2, TRUE, ok2, so2)
        both == [cache |-> e2.cache, log |-> e1.log \o e2.log,
                 failed |-> e1.failed \/ e2.failed]
    IN  IF method = "dot"
        THEN SimOutcome(<<Score(Dot(e1.ret, e2.ret), 1)>>, both,
                        <<e1.ret, e2.ret>>, FALSE)
        ELSE SimOutcome(<<Score(Dot(e1.ret, e2.ret),
                                Dot(e1.ret, e1.ret) * Dot(e2.ret, e2.ret))>>,
                        both, <<e1.ret, e2.ret>>, FALSE)

\* similarity(text1, text2, method): both texts are encoded (default
\* use_cache) before the method is looked at
similarity(c, text1, text2, method, ok1, so1, ok2, so2) ==
    LET e1 == encode_single(c, text1, TRUE, ok1, so1)
        e2 == encode_single(e1.cache, text2, TRUE, ok2, so2)
        both == [cache |-> e2.cache, log |-> e1.log \o e2.log,
                 failed |-> e1.failed \/ e2.failed]
    IN  IF method = "cosine"
        THEN SimOutcome(<<Score(Dot(e1.ret, e2.ret),
                                Dot(e1.ret, e1.ret) * Dot(e2.ret, e2.ret))>>,
                        both, <<e1.ret, e2.ret>>, FALSE)
        ELSE IF method = "dot"
        THEN SimOutcome(<<Score(Dot(e1.ret, e2.ret), 1)>>, both,
                        <<e1.ret, e2.ret>>, FALSE)
        ELSE SimOutcome(<<>>, both, <<e1.ret, e2.ret>>, TRUE)

\* one step of the stable descending sort: e goes behind every entry whose
\* similarity is not smaller
RECURSIVE InsertDesc(_, _)
InsertDesc(e, sorted) ==
    IF sorted = <<>> THEN <<e>>
    ELSE IF Head(sorted).similarity >= e.similarity
    THEN <<Head(sorted)>> \o InsertDesc(e, Tail(sorted))
    ELSE <<e>> \o sorted

RECURSIVE SortLoop(_, _, _)
SortLoop(similarities, i, sorted) ==
    IF i > Len(similarities) THEN sorted
    ELSE SortLoop(similarities, i + 1, InsertDesc(similarities[i], sorted))

\* a slip: the list is returned in candidate order
SortKeepsOrder(similarities) == similarities

\* similarities.sort(key=lambda x: x['similarity'], reverse=True): stable,
\* entries of equal similarity keep their order
SortDesc(similarities) == SortLoop(similarities, 1, <<>>)

\* seq[:k]
SlicePrefix(seq, k) ==
    IF k >= 0 THEN SubSeq(seq, 1, Min(k, Len(seq)))
    ELSE SubSeq(seq, 1, IF Len(seq) + k > 0 THEN Len(seq) + k ELSE 0)

\* lines 275-287: the entries, their sort and the slice; q and b are the
\* outcomes of the two encode calls
Ranked(q, b, candidates, top_k) ==
    SimOutcome(SlicePrefix(SortDesc([i \in 1..Len(b.ret) |->
                                        [index |-> i - 1, text |-> candidates[i],
                                         similarity |-> Dot(q.ret, b.ret[i])]]),
                           top_k),
               [cache |-> b.cache, log |-> q.log \o b.log,
                failed |-> q.failed \/ b.failed],
               <<q.ret>> \o b.ret, FALSE)

\* find_most_similar(query, candidates, top_k); the query goes through
\* encode_single and the candidates through encode_batch, both with their
\* default arguments
find_most_similar(c, query, candidates, top_k, modelOk, so, failAt, saveOut) ==
    IF candidates = <<>>
    THEN SimOutcome(<<>>, [cache |-> c, log |-> <<>>, failed |-> FALSE], <<>>, FALSE)
    ELSE CHOOSE r \in UNION {
             {Ranked(q, b, candidates, top_k) :
                 b \in {encode_batch(q.cache, candidates, DefaultBatchSize, TRUE,
                                     failAt, saveOut)}} :
             q \in {encode_single(c, query, TRUE, modelOk, so)}} : TRUE

\* ------------------------------------------------------------------ state
VARIABLES
    cache,          \* the files of self.cache_dir: key -> entry
    op,             \* the call that has just returned, "idle" between calls
    arg_texts,      \* its texts (encode_single: the one text)
    arg_use_cache,  \* its use_cache
    arg_batch_size, \* its batch_size (0 when the call has none)
    result,         \* the vectors it returned (encode_single: one vector)
    log,            \* its lookups, model invocations and writes, in order
    failed,         \* an exception was caught inside the call
    raised,         \* an exception reached the caller
    cacheBefore,    \* the cache when the call started
    earlier,        \* one earlier encode_single call of a non-blank text, any
                    \* of them: its text, the vector it returned, whether the
                    \* model raised in it
    prevCleared,    \* the call before this one, when it was a clear_cache that
                    \* succeeded: the texts it removed a readable entry of
    arg_query,      \* the query of find_most_similar
    arg_top_k,      \* its top_k
    arg_method,     \* the method of similarity
    embedded,       \* the vectors similarity or find_most_similar obtained:
                    \* emb1 and emb2; the query's, then the candidates'
    conc_text,      \* the text of the two concurrent encode_single calls
    proc            \* the two calls: where each stands, its local embedding,
                    \* the vector it returned, and what it met on the way

simArgs == <<arg_query, arg_top_k, arg_method, embedded>>

concVars == <<conc_text, proc>>

embVars == <<cache, op, arg_texts, arg_use_cache, arg_batch_size, result, log,
             failed, raised, cacheBefore, earlier, prevCleared, simArgs, concVars>>

VARIABLES
    started,        \* startup_event has run
    initialized,    \* gemini_service.initialized
    api_key,        \* gemini_service.api_key is set
    request,        \* the last POST /generate: query, context, the state it
                    \* met and what the external model did ("none": no request)
    response        \* its response

genVars == <<started, initialized, api_key, request, response>>

NoEarlier == [valid |-> FALSE, text |-> <<>>, vec |-> NoneVal, failed |-> FALSE]

NoClear == [valid |-> FALSE, had |-> {}]

\* the two concurrent callers
Procs == {1, 2}

\* a call that has not started
NoCall ==
    [pc |-> "idle", embedding |-> NoneVal, ret |-> NoneVal,
     hit |-> FALSE, failed |-> FALSE, write |-> "none"]

\* the lists handed to encode_batch
Batches == UNION {[1..n -> Texts] : n \in 0..MaxBatch}

BatchSizes == 1..MaxBatchSize

\* the candidate lists handed to find_most_similar
CandidateTexts == {<<>>, <<"a">>, <<" ", "b">>}

Candidates == UNION {[1..n -> CandidateTexts] : n \in 0..MaxBatch}

\* the top_k values: none, fewer than, as many as and more than the candidates
TopKs == 0..(MaxBatch + 1)

EmbInit ==
    /\ cache = EmptyCache
    /\ op = "idle"
    /\ arg_texts = <<>>
    /\ arg_use_cache = FALSE
    /\ arg_batch_size = 0
    /\ result = <<>>
    /\ log = <<>>
    /\ failed = FALSE
    /\ raised = FALSE
    /\ cacheBefore = EmptyCache
    /\ earlier = NoEarlier
    /\ prevCleared = NoClear
    /\ arg_query = <<>>
    /\ arg_top_k = 0
    /\ arg_method = ""
    /\ embedded = <<>>
    /\ conc_text = <<>>
    /\ proc = [p \in Procs |-> NoCall]

\* a caller invokes encode_single (directly or through encode_korean_text)
EncodeSingle ==
    /\ op = "idle"
    /\ \E text \in Texts, uc \in BOOLEAN, modelOk \in BOOLEAN, so \in SaveOutcomes :
         \E r \in {encode_single(cache, text, uc, modelOk, so)} :
             /\ op' = "encode_single"
             /\ arg_texts' = <<text>>
             /\ arg_use_cache' = uc
             /\ arg_batch_size' = 0
             /\ result' = <<r.ret>>
             /\ log' = r.log
             /\ failed' = r.failed
             /\ raised' = r.raised
             /\ cacheBefore' = cache
             /\ cache' = r.cache
             /\ UNCHANGED <<earlier, prevCleared, simArgs, genVars, concVars>>

\* a caller invokes encode_batch (directly or through encode_korean_texts)
EncodeBatch ==
    /\ op = "idle"
    /\ \E txts \in Batches, bs \in BatchSizes, uc \in BOOLEAN :
         \E n \in {Len(Lookup(cache, txts, uc).uncached_texts)} :
             \E failAt \in 0..NumChunks(n, bs) :
             \E saveOut \in [1..(IF uc /\ failAt = 0 THEN n ELSE 0) -> SaveOutcomes] :
                \E r \in {encode_batch(cache, txts, bs, uc, failAt, saveOut)} :
                    /\ op' = "encode_batch"
                    /\ arg_texts' = txts
                    /\ arg_use_cache' = uc
                    /\ arg_batch_size' = bs
                    /\ result' = r.ret
                    /\ log' = r.log
                    /\ failed' = r.failed
                    /\ raised' = r.raised
                    /\ cacheBefore' = cache
                    /\ cache' = r.cache
                    /\ UNCHANGED <<earlier, prevCleared, simArgs, genVars, concVars>>

\* a caller invokes clear_cache
ClearCache ==
    /\ op = "idle"
    /\ \E removalOk \in BOOLEAN, kept \in SUBSET Entries(cache) :
         /\ removalOk => kept = {}
         /\ op' = "clear_cache"
         /\ arg_texts' = <<>>
         /\ arg_use_cache' = FALSE
         /\ arg_batch_size' = 0
         /\ result' = <<>>
         /\ log' = <<>>
         /\ failed' = ~removalOk
         /\ raised' = FALSE
         /\ cacheBefore' = cache
         /\ cache' = clear_cache(cache, removalOk, kept)
         /\ UNCHANGED <<earlier, prevCleared, simArgs, genVars, concVars>>

\* the caller takes the result; the service waits for the next call
TakeResult ==
    /\ op # "idle"
    /\ op' = "idle"
    /\ arg_texts' = <<>>
    /\ arg_use_cache' = FALSE
    /\ arg_batch_size' = 0
    /\ result' = <<>>
    /\ log' = <<>>
    /\ failed' = FALSE
    /\ raised' = FALSE
    /\ cacheBefore' = cache
    /\ prevCleared' =
         IF op = "clear_cache" /\ ~failed
         THEN [valid |-> TRUE,
               had |-> {t \in NonBlankTexts :
                          cacheBefore[_get_cache_key(t)].st = "ok"}]
         ELSE NoClear
    /\ arg_query' = <<>>
    /\ arg_top_k' = 0
    /\ arg_method' = ""
    /\ embedded' = <<>>
    /\ UNCHANGED <<cache, genVars, concVars>>

Return == TakeResult /\ UNCHANGED earlier

\* the same, and the call is the one kept for comparison with later calls
ReturnRemember ==
    /\ op = "encode_single"
    /\ ~IsBlank(arg_texts[1])
    /\ TakeResult
    /\ earlier' = [valid |-> TRUE, text |-> arg_texts[1],
                   vec |-> result[1], failed |-> failed]

\* a caller invokes similarity
Similarity ==
    /\ op = "idle"
    /\ \E text1 \in Texts, text2 \in Texts, method \in Methods,
          ok1 \in BOOLEAN, so1 \in SaveOutcomes,
          ok2 \in BOOLEAN, so2 \in SaveOutcomes :
         \E r \in {similarity(cache, text1, text2, method, ok1, so1, ok2, so2)} :
             /\ op' = "similarity"
             /\ arg_texts' = <<text1, text2>>
             /\ arg_use_cache' = TRUE
             /\ arg_batch_size' = 0
             /\ arg_method' = method
             /\ embedded' = r.embedded
             /\ result' = r.ret
             /\ log' = r.log
             /\ failed' = r.failed
             /\ raised' = r.raised
             /\ cacheBefore' = cache
             /\ cache' = r.cache
             /\ UNCHANGED <<earlier, prevCleared, arg_query, arg_top_k, genVars, concVars>>

\* a caller invokes find_most_similar; the cache writes of the candidates
\* all meet the same file system: they all succeed, or are all denied, or all
\* torn (encode_batch on its own is called with every mix); pending: the
\* query reaches the model, so that what the model and the write do matters
FindMostSimilar ==
    /\ op = "idle"
    /\ \E query \in Texts, candidates \in Candidates, top_k \in TopKs :
         \E pending \in {encode_single(cache, query, TRUE, FALSE, "ok").failed} :
         \E modelOk \in (IF pending THEN BOOLEAN ELSE {TRUE}) :
         \E so \in (IF pending /\ modelOk THEN SaveOutcomes ELSE {"ok"}) :
         \E q \in {encode_single(cache, query, TRUE, modelOk, so)} :
         \E n \in {Len(Lookup(q.cache, candidates, TRUE).uncached_texts)} :
         \E failAt \in 0..NumChunks(n, DefaultBatchSize) :
         \E bso \in (IF failAt = 0 /\ n > 0 THEN SaveOutcomes ELSE {"ok"}) :
         \E saveOut \in {[j \in 1..n |-> bso]} :
         \E r \in {find_most_similar(cache, query, candidates, top_k,
                                     modelOk, so, failAt, saveOut)} :
             /\ op' = "find_most_similar"
             /\ arg_texts' = candidates
             /\ arg_use_cache' = TRUE
             /\ arg_batch_size' = DefaultBatchSize
             /\ arg_query' = query
             /\ arg_top_k' = top_k
             /\ embedded' = r.embedded
             /\ result' = r.ret
             /\ log' = r.log
             /\ failed' = r.failed
             /\ raised' = r.raised
             /\ cacheBefore' = cache
             /\ cache' = r.cache
             /\ UNCHANGED <<earlier, prevCleared, arg_method, genVars, concVars>>

\* ------------------------------------------------ two concurrent callers
\* Two threads call encode_single(t) with the default use_cache for the same
\* non-blank text t that has no readable entry.  Each call is a sequence of
\* steps; the steps of the two calls interleave in any order, nothing being
\* locked.
Begin ==
    /\ op = "idle"
    /\ \A p \in Procs : proc[p].pc = "idle"
    /\ \E t \in NonBlankTexts :
         /\ _get_from_cache(cache, _get_cache_key(t)) = NoneVal
         /\ conc_text' = t
    /\ proc' = [p \in Procs |-> [NoCall EXCEPT !.pc = "lookup"]]
    /\ UNCHANGED <<cache, op, arg_texts, arg_use_cache, arg_batch_size, result,
                   log, failed, raised, cacheBefore, earlier, prevCleared,
                   simArgs, genVars>>

\* lines 107-111: the lookup; a hit ends the call
CacheLookup ==
    /\ \E p \in Procs :
         /\ proc[p].pc = "lookup"
         /\ \E r \in {_get_from_cache(cache, _get_cache_key(conc_text))} :
              proc' = [proc EXCEPT ![p] =
                          IF r # NoneVal
                          THEN [@ EXCEPT !.pc = "done", !.ret = r, !.hit = TRUE]
                          ELSE [@ EXCEPT !.pc = "model"]]
    /\ UNCHANGED <<cache, op, arg_texts, arg_use_cache, arg_batch_size, result,
                   log, failed, raised, cacheBefore, earlier, prevCleared,
                   simArgs, conc_text, genVars>>

\* line 115 and lines 123-125: the model invocation; when it raises the call
\* returns the zero vector
InvokeModel ==
    /\ \E p \in Procs, modelOk \in BOOLEAN :
         /\ proc[p].pc = "model"
         /\ proc' = [proc EXCEPT ![p] =
                         IF modelOk
                         THEN [@ EXCEPT !.pc = "open",
                                        !.embedding = ModelEncode(<<conc_text>>)[1]]
                         ELSE [@ EXCEPT !.pc = "done", !.ret = ZeroVec,
                                        !.failed = TRUE]]
    /\ UNCHANGED <<cache, op, arg_texts, arg_use_cache, arg_batch_size, result,
                   log, failed, raised, cacheBefore, earlier, prevCleared,
                   simArgs, conc_text, genVars>>

\* line 87: _save_to_cache opens the file; when open raises, the write is
\* given up and the call returns its embedding
OpenForWrite ==
    /\ \E p \in Procs, ok \in BOOLEAN :
         /\ proc[p].pc = "open"
         /\ cache' = open_for_write(cache, _get_cache_key(conc_text), ok)
         /\ proc' = [proc EXCEPT ![p] =
                         IF ok
                         THEN [@ EXCEPT !.pc = "dump"]
                         ELSE [@ EXCEPT !.pc = "done", !.ret = proc[p].embedding,
                                        !.write = "denied"]]
    /\ UNCHANGED <<op, arg_texts, arg_use_cache, arg_batch_size, result,
                   log, failed, raised, cacheBefore, earlier, prevCleared,
                   simArgs, conc_text, genVars>>

\* line 88 and line 121: the dump, then the call returns its embedding
DumpAndReturn ==
    /\ \E p \in Procs, ok \in BOOLEAN :
         /\ proc[p].pc = "dump"
         /\ cache' = dump_to_file(cache, _get_cache_key(conc_text),
                                  proc[p].embedding, ok)
         /\ proc' = [proc EXCEPT ![p] =
                         [@ EXCEPT !.pc = "done", !.ret = proc[p].embedding,
                                   !.write = IF ok THEN "ok" ELSE "torn"]]
    /\ UNCHANGED <<op, arg_texts, arg_use_cache, arg_batch_size, result,
                   log, failed, raised, cacheBefore, earlier, prevCleared,
                   simArgs, conc_text, genVars>>

\* both callers have their vectors
Finish ==
    /\ \A p \in Procs : proc[p].pc = "done"
    /\ proc' = [p \in Procs |-> NoCall]
    /\ conc_text' = <<>>
    /\ UNCHANGED <<cache, op, arg_texts, arg_use_cache, arg_batch_size, result,
                   log, failed, raised, cacheBefore, earlier, prevCleared,
                   simArgs, genVars>>

\* =================================================== Korean RAG Gemini service
\* self.model_name of GeminiRAGService
GeminiModelName == "gemini-1.5-flash"

\* a slip: self.initialized is set before the configuration is tried
InitializeBeforeConfigure(lib, keyPresent, configOk) ==
    IF ~lib \/ ~keyPresent
    THEN [initialized |-> FALSE, api_key |-> FALSE, returns |-> FALSE]
    ELSE [initialized |-> TRUE, api_key |-> TRUE, returns |-> configOk]

\* GeminiRAGService.initialize(): lib: google.generativeai was imported
\* (GEMINI_AVAILABLE); keyPresent: GEMINI_API_KEY or GOOGLE_API_KEY is set;
\* configOk: genai.configure and genai.GenerativeModel return
initialize(lib, keyPresent, configOk) ==
    IF ~lib THEN [initialized |-> FALSE, api_key |-> FALSE, returns |-> FALSE]
    ELSE IF ~keyPresent
    THEN [initialized |-> FALSE, api_key |-> FALSE, returns |-> FALSE]
    ELSE IF ~configOk
    THEN [initialized |-> FALSE, api_key |-> TRUE, returns |-> FALSE]
    ELSE [initialized |-> TRUE, api_key |-> TRUE, returns |-> TRUE]

\* what self.model.generate_content can do: return a response whose first
\* candidate has a text part; return a response without candidates; return a
\* response whose first candidate has no part (parts[0] raises IndexError);
\* raise
GeminiOutcomes == {"text", "no_candidates", "no_parts", "raises"}

\* the response of the HTTP endpoint: the status, and for 200 the fields of
\* GenerateResponse; body names which text the response carries
HttpError(code) ==
    [status |-> code, model_used |-> "", korean_optimized |-> FALSE,
     body |-> "error", context_length |-> 0, called |-> FALSE]

\* a slip: a failed call falls back to the template
ServiceFallbackOnError(init, query, context, outcome) ==
    IF ~init \/ outcome \in {"raises", "no_parts"}
    THEN [status |-> 200, model_used |-> "fallback-mode",
          korean_optimized |-> FALSE, body |-> "fallback",
          context_length |-> Len(context), called |-> init]
    ELSE [status |-> 200, model_used |-> GeminiModelName,
          korean_optimized |-> TRUE,
          body |-> IF outcome = "text" THEN "generated" ELSE "apology",
          context_length |-> Len(context), called |-> TRUE]

\* GeminiRAGService.generate_response (lines 136-199); exceptions inside the
\* try block become HTTPException(500)
service_generate_response(init, query, context, outcome) ==
    IF ~init
    THEN [status |-> 200, model_used |-> "fallback-mode",
          korean_optimized |-> FALSE, body |-> "fallback",
          context_length |-> Len(context), called |-> FALSE]
    ELSE IF outcome \in {"raises", "no_parts"}
    THEN [HttpError(500) EXCEPT !.called = TRUE]
    ELSE [status |-> 200, model_used |-> GeminiModelName,
          korean_optimized |-> TRUE,
          body |-> IF outcome = "text" THEN "generated" ELSE "apology",
          context_length |-> Len(context), called |-> TRUE]

\* a slip: the context is not validated
GenerateNoContextCheck(init, query, context, outcome) ==
    IF Strip(query) = <<>> THEN HttpError(400)
    ELSE service_generate_response(init, query, context, outcome)

\* the endpoint POST /generate (lines 254-277)
generate_response(init, query, context, outcome) ==
    IF Strip(query) = <<>> THEN HttpError(400)
    ELSE IF Strip(context) = <<>> THEN HttpError(400)
    ELSE service_generate_response(init, query, context, outcome)

\* JSON null
Null == "null"

\* a slip: the health answer looks at the key, not at initialized
HealthFromApiKey(init, key) ==
    [status |-> IF key THEN "healthy" ELSE "degraded",
     gemini_api_available |-> key,
     model |-> IF key THEN GeminiModelName ELSE Null]

\* the endpoint GET /health (lines 245-252), without the timestamp; key is
\* bool(gemini_service.api_key), which the endpoint does not read
health_check(init, key) ==
    [status |-> IF init THEN "healthy" ELSE "degraded",
     gemini_api_available |-> init,
     model |-> IF init THEN GeminiModelName ELSE Null]

NoRequest ==
    [kind |-> "none", query |-> <<>>, context |-> <<>>, analysis |-> FALSE,
     initialized |-> FALSE, outcome |-> "text"]

GenInit ==
    /\ started = FALSE
    /\ initialized = FALSE
    /\ api_key = FALSE
    /\ request = NoRequest
    /\ response = HttpError(0)

\* @app.on_event("startup")
Startup ==
    /\ ~started
    /\ \E lib \in BOOLEAN, keyPresent \in BOOLEAN, configOk \in BOOLEAN :
         \E r \in {initialize(lib, keyPresent, configOk)} :
            /\ started' = TRUE
            /\ initialized' = r.initialized
            /\ api_key' = r.api_key
    /\ UNCHANGED <<request, response, embVars>>

\* POST /generate with a body that passes validation
Generate ==
    /\ started
    /\ \E query \in Texts, context \in Texts, analysis \in BOOLEAN,
          outcome \in GeminiOutcomes :
         /\ request' = [kind |-> "generate", query |-> query,
                        context |-> context, analysis |-> analysis,
                        initialized |-> initialized, outcome |-> outcome]
         /\ response' = generate_response(initialized, query, context, outcome)
    /\ UNCHANGED <<started, initialized, api_key, embVars>>

\* GET /health
Health ==
    /\ started
    /\ request' = [NoRequest EXCEPT !.kind = "health", !.initialized = initialized]
    /\ response' = health_check(initialized, api_key)
    /\ UNCHANGED <<started, initialized, api_key, embVars>>

vars == <<embVars, genVars>>

Init == EmbInit /\ GenInit

Next == EncodeSingle \/ EncodeBatch \/ ClearCache \/ Return

\* the embedding service, any sequence of calls
Spec == Init /\ [][Next]_vars

NextPairs == Next \/ ReturnRemember

\* the same with one earlier encode_single call kept, to compare calls
SpecPairs == Init /\ [][NextPairs]_vars

GenNext == Startup \/ Generate \/ Health

\* the response generator: startup, then any sequence of requests
SpecGen == Init /\ [][GenNext]_vars

SimNext == Similarity \/ FindMostSimilar \/ Return

\* the similarity helpers, any sequence of calls
SpecSim == Init /\ [][SimNext]_vars

ConcNext ==
    Begin \/ CacheLookup \/ InvokeModel \/ OpenForWrite \/ DumpAndReturn \/ Finish

\* two concurrent encode_single calls of one text that has no readable
\* entry, again and again
SpecConc == Init /\ [][ConcNext]_vars

\* ================================================================= claims
\* What the claims speak of, stated on the call that has just returned.

\* a text that is empty or holds whitespace only
BlankText(t) == \A j \in 1..Len(t) : t[j] \in Whitespace

\* the key of (model identifier, exact text)
KeyOf(t) == <<ModelName, t>>

Positions == 1..Len(arg_texts)
BlankPos(i) == BlankText(arg_texts[i])

\* position i met a readable entry when the call looked it up
HitPos(i) ==
    /\ ~BlankPos(i)
    /\ arg_use_cache
    /\ cacheBefore[KeyOf(arg_texts[i])].st = "ok"

\* position i was pending: not blank and not a hit
MissPos(i) == ~BlankPos(i) /\ ~HitPos(i)

\* the model was invoked on text t during the call
ModelInvokedFor(t) ==
    \E e \in 1..Len(log) :
        log[e].ev = "model" /\ \E j \in 1..Len(log[e].batch) : log[e].batch[j] = t

\* the cache was read or written under key k during the call
CacheTouched(k) ==
    \E e \in 1..Len(log) : log[e].ev \in {"get", "put"} /\ log[e].key = k

IsZeroVector(v) ==
    /\ DOMAIN v = 1..EmbeddingDim
    /\ \A d \in 1..EmbeddingDim : v[d] = 0

EncodeCall == op \in {"encode_single", "encode_batch"}

\* C1 as stated: encode_batch returns len(texts) vectors, position i holding
\* the zero vector for a blank text, the stored vector for a cache hit and the
\* model's vector for a miss, and no position holds the placeholder.
C1_Original ==
    op = "encode_batch" =>
        /\ Len(result) = Len(arg_texts)
        /\ \A i \in Positions :
              /\ result[i] # NoneVal
              /\ BlankPos(i) => IsZeroVector(result[i])
              /\ HitPos(i) => result[i] = cacheBefore[KeyOf(arg_texts[i])].val
              /\ MissPos(i) => result[i] = ModelVec(arg_texts[i])

\* C1 amended: as C1, a miss position holding the model's vector when no
\* model invocation of the call raised, and the zero vector when one did.
C1_BatchPositions ==
    op = "encode_batch" =>
        /\ Len(result) = Len(arg_texts)
        /\ \A i \in Positions :
              /\ result[i] # NoneVal
              /\ BlankPos(i) => IsZeroVector(result[i])
              /\ HitPos(i) => result[i] = cacheBefore[KeyOf(arg_texts[i])].val
              /\ MissPos(i) /\ ~failed => result[i] = ModelVec(arg_texts[i])
              /\ MissPos(i) /\ failed => IsZeroVector(result[i])

\* a batch with a blank, a hit and a miss position in which the model answered
C1_Witness ==
    /\ op = "encode_batch"
    /\ ~failed
    /\ \E i \in Positions : BlankPos(i)
    /\ \E i \in Positions : HitPos(i)
    /\ \E i \in Positions : MissPos(i) /\ result[i] = ModelVec(arg_texts[i])

\* C2: a blank text yields the zero vector of length embedding_dim in
\* encode_single and at each such position of encode_batch; the cache is
\* neither read nor written under its key, the model is not invoked on it, its
\* key has no entry before or after, and a call of blank texts only leaves the
\* whole cache as it was and does nothing else.
C2_BlankText ==
    EncodeCall =>
        /\ \A i \in Positions :
              BlankPos(i) =>
                  /\ i \in DOMAIN result
                  /\ IsZeroVector(result[i])
                  /\ ~CacheTouched(KeyOf(arg_texts[i]))
                  /\ ~ModelInvokedFor(arg_texts[i])
                  /\ cache[KeyOf(arg_texts[i])] = Absent
                  /\ cacheBefore[KeyOf(arg_texts[i])] = Absent
        /\ (\A i \in Positions : BlankPos(i)) => cache = cacheBefore /\ log = <<>>

\* a batch holding a whitespace-only text next to a text that was computed
\* and stored
C2_Witness ==
    /\ op = "encode_batch"
    /\ \E i \in Positions : arg_texts[i] = <<" ">>
    /\ \E i \in Positions : MissPos(i) /\ cache[KeyOf(arg_texts[i])].st = "ok"
    /\ cache # cacheBefore

\* C3 as stated: two encode_single calls of the same non-blank text return
\* equal vectors, wherever they stand in a sequence of calls.
C3_Original ==
    (op = "encode_single" /\ earlier.valid /\ earlier.text = arg_texts[1])
        => result[1] = earlier.vec

\* C3 amended: two encode_single calls of the same non-blank text, in neither
\* of which the model invocation raised, return equal vectors.
C3_SameTextSameVector ==
    (/\ op = "encode_single"
     /\ earlier.valid
     /\ earlier.text = arg_texts[1]
     /\ ~earlier.failed
     /\ ~failed)
        => result[1] = earlier.vec

\* a call answered from the cache after an earlier call of the same text that
\* the model answered
C3_Witness ==
    /\ op = "encode_single"
    /\ earlier.valid
    /\ earlier.text = arg_texts[1]
    /\ ~earlier.failed
    /\ HitPos(1)
    /\ result[1] = earlier.vec

\* C4: the key is decided by the exact text (two texts share a key only when
\* they are the same string); and with use_cache, a text whose key has a
\* readable entry when the call looks it up is answered with exactly the
\* stored vector, the lookup being a hit and the model not invoked on it.
C4_HitReturnsStored ==
    /\ \A t1 \in Texts, t2 \in Texts :
          (_get_cache_key(t1) = _get_cache_key(t2)) <=> (t1 = t2)
    /\ (EncodeCall /\ arg_use_cache) =>
          \A i \in Positions :
              (~BlankPos(i) /\ cacheBefore[_get_cache_key(arg_texts[i])].st = "ok")
                  => /\ result[i] = cacheBefore[_get_cache_key(arg_texts[i])].val
                     /\ ~ModelInvokedFor(arg_texts[i])
                     /\ \E e \in 1..Len(log) :
                            log[e] = GetEv(_get_cache_key(arg_texts[i]), TRUE)

\* a batch in which one text is answered from the cache while the model is
\* invoked for another
C4_Witness ==
    /\ op = "encode_batch"
    /\ arg_use_cache
    /\ \E i \in Positions : HitPos(i) /\ ~ModelInvokedFor(arg_texts[i])
    /\ \E i \in Positions : MissPos(i) /\ ModelInvokedFor(arg_texts[i])

\* C5 as stated: every step either leaves each existing entry as it is
\* (adding entries only under keys that had none) or removes every entry at
\* once; no step overwrites an existing entry or removes a single one.
C5_Original ==
    [][ \/ \A k \in Keys : cache[k].st # "absent" => cache'[k] = cache[k]
        \/ \A k \in Keys : cache'[k].st = "absent" ]_vars

\* C5 amended: encode_single and encode_batch never change or remove a
\* readable entry and never remove a file; they add entries only under keys
\* whose entry was absent or unreadable (the remains of a failed write).
\* clear_cache removes every entry at once when the removal succeeds and, when
\* it fails part-way, removes some entries and leaves the others as they
\* were.  Taking a result changes nothing.
C5_AppendOnly ==
    [][ /\ op' \in {"encode_single", "encode_batch"} =>
              \A k \in Keys :
                  /\ cache[k].st = "ok" => cache'[k] = cache[k]
                  /\ cache[k].st # "absent" => cache'[k].st # "absent"
        /\ op' = "clear_cache" =>
              /\ \A k \in Keys : cache'[k] = Absent \/ cache'[k] = cache[k]
              /\ ~failed' => \A k \in Keys : cache'[k] = Absent
        /\ op' = "idle" => cache' = cache ]_vars

\* a batch that added an entry while a readable entry stayed as it was
C5_Witness ==
    /\ op = "encode_batch"
    /\ \E k \in Keys : cacheBefore[k].st = "ok" /\ cache[k] = cacheBefore[k]
    /\ \E k \in Keys : cacheBefore[k].st = "absent" /\ cache[k].st = "ok"

\* encode_single(t) with the default use_cache, right after a clear_cache that
\* removed a readable entry of t
RecomputeAfterClear ==
    /\ op = "encode_single"
    /\ arg_use_cache
    /\ prevCleared.valid
    /\ arg_texts[1] \in prevCleared.had

\* the write of the call under key k succeeded
WriteSucceeded(k) == \E e \in 1..Len(log) : log[e] = PutEv(k, "ok")

\* C6 as stated: after clear_cache the cache holds 0 entries; a following
\* encode_single(t) of a previously cached t invokes the model again, and the
\* cache then holds exactly 1 entry.
C6_Original ==
    /\ op = "clear_cache" => Cardinality(Entries(cache)) = 0
    /\ RecomputeAfterClear =>
          /\ ModelInvokedFor(arg_texts[1])
          /\ Cardinality(Entries(cache)) = 1

\* C6 amended: after a clear_cache whose removal did not fail the cache holds
\* 0 entries; a following encode_single(t) of a previously cached t misses and
\* invokes the model again; when that invocation and the cache write succeed,
\* the call returns the model's vector and the cache holds exactly 1 entry,
\* the one of t.
C6_ClearThenRecompute ==
    /\ (op = "clear_cache" /\ ~failed) => Cardinality(Entries(cache)) = 0
    /\ RecomputeAfterClear =>
          /\ Cardinality(Entries(cacheBefore)) = 0
          /\ ModelInvokedFor(arg_texts[1])
          /\ Len(log) >= 1 /\ log[1] = GetEv(KeyOf(arg_texts[1]), FALSE)
          /\ (~failed /\ WriteSucceeded(KeyOf(arg_texts[1]))) =>
                /\ result[1] = ModelVec(arg_texts[1])
                /\ Entries(cache) = {KeyOf(arg_texts[1])}
                /\ cache[KeyOf(arg_texts[1])] = Stored(ModelVec(arg_texts[1]))

\* the re-encoding after a clear, model and write succeeding
C6_Witness ==
    /\ RecomputeAfterClear
    /\ ~failed
    /\ ModelInvokedFor(arg_texts[1])
    /\ Cardinality(Entries(cache)) = 1

\* C7: when a model invocation of encode_batch raises, at whichever chunk,
\* the call does not raise; it returns len(texts) vectors, every pending
\* position holding the zero vector of the configured dimension, blank
\* positions the zero vector and hit positions the stored vector; a failing
\* cache write does not make the call raise or leave a placeholder either.
C7_BatchFailureZeros ==
    op = "encode_batch" =>
        /\ ~raised
        /\ Len(result) = Len(arg_texts)
        /\ \A i \in Positions : result[i] # NoneVal
        /\ failed =>
              \A i \in Positions :
                  /\ MissPos(i) => IsZeroVector(result[i])
                  /\ BlankPos(i) => IsZeroVector(result[i])
                  /\ HitPos(i) =>
                        result[i] = cacheBefore[KeyOf(arg_texts[i])].val

\* a batch whose second chunk raised after the first was computed, with a
\* hit position beside the pending ones
C7_Witness ==
    /\ op = "encode_batch"
    /\ failed
    /\ \E e \in 1..Len(log) : log[e].ev = "model" /\ log[e].ok
    /\ \E i \in Positions : HitPos(i) /\ result[i] = ModelVec(arg_texts[i])
    /\ \E i \in Positions : MissPos(i) /\ IsZeroVector(result[i])

EvRank(e) == CASE e = "get" -> 1 [] e = "model" -> 2 [] e = "put" -> 3

\* C8: encode_single goes blank check, cache lookup, model, cache store, in
\* that order: a blank text touches nothing; a hit ends the call; the store
\* follows a model invocation that returned; and a model invocation that
\* raises makes the call return the zero vector, with nothing stored and
\* nothing raised to the caller.
C8_SinglePath ==
    op = "encode_single" =>
        /\ ~raised
        /\ Len(result) = 1
        /\ BlankPos(1) => log = <<>> /\ IsZeroVector(result[1])
        /\ \A e1 \in 1..Len(log), e2 \in 1..Len(log) :
              e1 < e2 => EvRank(log[e1].ev) < EvRank(log[e2].ev)
        /\ (~BlankPos(1) /\ arg_use_cache) =>
              Len(log) >= 1 /\ log[1].ev = "get"
        /\ HitPos(1) => Len(log) = 1
        /\ MissPos(1) => ModelInvokedFor(arg_texts[1])
        /\ \A e \in 1..Len(log) :
              log[e].ev = "put" =>
                  /\ arg_use_cache
                  /\ e > 1
                  /\ log[e - 1] = ModelEv(<<arg_texts[1]>>, TRUE)
        /\ (MissPos(1) /\ ~failed /\ arg_use_cache) =>
              log[Len(log)].ev = "put"
        /\ failed =>
              /\ IsZeroVector(result[1])
              /\ cache = cacheBefore
              /\ log[Len(log)] = ModelEv(<<arg_texts[1]>>, FALSE)

\* a call that missed the cache and whose model invocation raised
C8_Witness ==
    /\ op = "encode_single"
    /\ arg_use_cache
    /\ MissPos(1)
    /\ failed
    /\ IsZeroVector(result[1])

\* the last request was a POST /generate whose query and context are not blank
ValidGenerate ==
    /\ request.kind = "generate"
    /\ ~BlankText(request.query)
    /\ ~BlankText(request.context)

C10_ErrorIsNotFallback ==
    request.kind = "generate" =>
        /\ (ValidGenerate /\ request.initialized /\ request.outcome = "raises") =>
              /\ response.status = 500
              /\ response.body # "fallback"
              /\ response.model_used # "fallback-mode"
        /\ (response.body = "fallback" \/ response.model_used = "fallback-mode")
              => ~request.initialized
        /\ request.initialized => initialized

\* a request in which the external model raised
C10_Witness ==
    /\ ValidGenerate
    /\ request.initialized
    /\ request.outcome = "raises"
    /\ response.status = 500
    /\ response.called
    /\ initialized

\* C11: the generator becomes initialized only at startup and only when the
\* library is there, a key is set and the configuration returns; missing
\* credentials or a failing configuration leave it not initialized
\* (degraded); after startup no request changes the state or runs startup
\* again, so degraded stays degraded and initialized stays initialized; and a
\* request met by the degraded service never calls the external model.
C11_Lifecycle ==
    [][ /\ \A lib \in BOOLEAN, keyPresent \in BOOLEAN, configOk \in BOOLEAN :
              /\ initialize(lib, keyPresent, configOk).initialized
                    <=> (lib /\ keyPresent /\ configOk)
              /\ initialize(lib, keyPresent, configOk).returns
                    <=> initialize(lib, keyPresent, configOk).initialized
        /\ (~initialized /\ initialized') => (~started /\ started' /\ api_key')
        /\ (~started /\ started') =>
              \E lib \in BOOLEAN, keyPresent \in BOOLEAN, configOk \in BOOLEAN :
                  /\ initialized' = initialize(lib, keyPresent, configOk).initialized
                  /\ api_key' = initialize(lib, keyPresent, configOk).api_key
        /\ ~started => ~initialized
        /\ started => (started' /\ initialized' = initialized /\ api_key' = api_key)
        /\ (request'.kind = "generate" /\ ~initialized') =>
              (~response'.called /\ ~request'.initialized) ]_vars

\* a valid request answered with the fallback by a service whose
\* configuration failed at startup although a key was set
C11_Witness ==
    /\ started
    /\ ~initialized
    /\ api_key
    /\ ValidGenerate
    /\ response.status = 200
    /\ response.model_used = "fallback-mode"
    /\ ~response.called

\* C18: GET /health answers status "healthy", gemini_api_available true and
\* the configured model name exactly when the service is initialized, and
\* "degraded", false and null otherwise; and a health answer and a valid POST
\* /generate that follow one another agree: the request calls the external
\* model exactly when the health answer says the API is available, and takes
\* the fallback exactly when it says degraded.
C18_HealthReflectsState ==
    [][ /\ request'.kind = "health" =>
              /\ initialized' =>
                    response' = [status |-> "healthy",
                                 gemini_api_available |-> TRUE,
                                 model |-> GeminiModelName]
              /\ ~initialized' =>
                    response' = [status |-> "degraded",
                                 gemini_api_available |-> FALSE,
                                 model |-> Null]
        /\ (request.kind = "health" /\ ValidGenerate') =>
              /\ response'.called <=> response.gemini_api_available
              /\ response'.called <=> (response.status = "healthy")
              /\ (response'.model_used = "fallback-mode")
                    <=> (response.status = "degraded")
        /\ (ValidGenerate /\ request'.kind = "health") =>
              /\ response.called <=> response'.gemini_api_available
              /\ (response.model_used = "fallback-mode")
                    <=> (response'.status = "degraded") ]_vars

\* a health answer of the service that holds a key but whose configuration
\* failed at startup
C18_Witness ==
    /\ request.kind = "health"
    /\ api_key
    /\ ~initialized
    /\ response.status = "degraded"
    /\ response.gemini_api_available = FALSE
    /\ response.model = Null

\* the similarity of candidate position i (1-based) in the call that has just
\* returned: the dot product of the query's vector and the candidate's
CandidateSimilarity(i) == Dot(embedded[1], embedded[i + 1])

\* candidate position i is among the returned entries
Returned(i) == \E e \in 1..Len(result) : result[e].index = i - 1

\* C12: find_most_similar returns [] for empty candidates; otherwise it
\* returns min(top_k, len(candidates)) entries, each with the 0-based index of
\* a candidate, that candidate's text and its similarity to the query, no
\* candidate twice, in order of non-increasing similarity with entries of
\* equal similarity in candidate order; and no candidate left out scores
\* higher than a returned one, or equal to a returned one that stands behind
\* it in the candidate list.
C12_TopKRanking ==
    op = "find_most_similar" =>
        /\ arg_texts = <<>> => result = <<>>
        /\ Len(result) = Min(arg_top_k, Len(arg_texts))
        /\ \A e \in 1..Len(result) :
              /\ DOMAIN result[e] = {"index", "text", "similarity"}
              /\ result[e].index \in 0..(Len(arg_texts) - 1)
              /\ result[e].text = arg_texts[result[e].index + 1]
              /\ result[e].similarity = CandidateSimilarity(result[e].index + 1)
        /\ \A e1 \in 1..Len(result), e2 \in 1..Len(result) :
              e1 < e2 =>
                  \/ result[e1].similarity > result[e2].similarity
                  \/ /\ result[e1].similarity = result[e2].similarity
                     /\ result[e1].index < result[e2].index
        /\ \A i \in 1..Len(arg_texts) :
              ~Returned(i) =>
                  \A e \in 1..Len(result) :
                      \/ result[e].similarity > CandidateSimilarity(i)
                      \/ /\ result[e].similarity = CandidateSimilarity(i)
                         /\ result[e].index < i - 1

\* three candidates and top_k = 2: the two later candidates score the same,
\* higher than the first, and are returned in candidate order
C12_Witness ==
    /\ op = "find_most_similar"
    /\ Len(arg_texts) = 3
    /\ arg_top_k = 2
    /\ Len(result) = 2
    /\ result[1].index = 1
    /\ result[2].index = 2
    /\ result[1].similarity = result[2].similarity
    /\ CandidateSimilarity(1) > 0
    /\ CandidateSimilarity(1) < result[2].similarity

\* C13: similarity with a method other than 'cosine' and 'dot' raises to the
\* caller and returns no score; with 'cosine' or 'dot' it does not raise and
\* returns one score, the dot product of the two vectors, divided by the
\* product of their norms for 'cosine'.
C13_UnknownMethod ==
    op = "similarity" =>
        /\ arg_method \notin {"cosine", "dot"} => (raised /\ result = <<>>)
        /\ arg_method \in {"cosine", "dot"} =>
              /\ ~raised
              /\ Len(result) = 1
              /\ result[1].dot = Dot(embedded[1], embedded[2])
        /\ arg_method = "dot" => result[1].normsq = 1
        /\ arg_method = "cosine" =>
              result[1].normsq =
                  Dot(embedded[1], embedded[1]) * Dot(embedded[2], embedded[2])

\* a call with the method "Cosine": both texts were encoded and stored, then
\* the call raised
C13_Witness ==
    /\ op = "similarity"
    /\ arg_method = "Cosine"
    /\ raised
    /\ result = <<>>
    /\ Cardinality(Readable(cache)) = Cardinality(Readable(cacheBefore)) + 2

\* positions i < j of the batch hold the same non-blank text
SameTextAt(i, j) == i < j /\ arg_texts[i] = arg_texts[j] /\ ~BlankPos(i)

\* every write of the call under key k succeeded
WritesSucceeded(k) ==
    \A e \in 1..Len(log) : (log[e].ev = "put" /\ log[e].key = k) => log[e].ok

\* C14 as stated: in a batch holding the same non-blank text at two or more
\* positions, those positions hold the identical vector and the blank
\* positions the zero vector, and afterwards the cache holds an entry for
\* that text.
C14_Original ==
    op = "encode_batch" =>
        \A i \in Positions, j \in Positions :
            SameTextAt(i, j) =>
                /\ result[i] = result[j]
                /\ \A b \in Positions : BlankPos(b) => IsZeroVector(result[b])
                /\ KeyOf(arg_texts[i]) \in Entries(cache)

\* C14 amended: those positions hold the identical vector and the blank
\* positions the zero vector, whether the text was cached before or not; a
\* text that had a readable entry keeps it; a text that had none has
\* afterwards one entry, holding the vector returned, when use_cache is true,
\* no model invocation raised and the writes under its key succeeded, and its
\* entry is as it was before the call when use_cache is false or a model
\* invocation raised.
C14_DuplicateTexts ==
    op = "encode_batch" =>
        \A i \in Positions, j \in Positions :
            SameTextAt(i, j) =>
                /\ result[i] = result[j]
                /\ \A b \in Positions : BlankPos(b) => IsZeroVector(result[b])
                /\ HitPos(i) <=> HitPos(j)
                /\ cacheBefore[KeyOf(arg_texts[i])].st = "ok" =>
                      cache[KeyOf(arg_texts[i])] = cacheBefore[KeyOf(arg_texts[i])]
                /\ (MissPos(i) /\ arg_use_cache /\ ~failed
                        /\ WritesSucceeded(KeyOf(arg_texts[i]))) =>
                      /\ result[i] = ModelVec(arg_texts[i])
                      /\ cache[KeyOf(arg_texts[i])] = Stored(result[i])
                /\ (MissPos(i) /\ (~arg_use_cache \/ failed)) =>
                      cache[KeyOf(arg_texts[i])] = cacheBefore[KeyOf(arg_texts[i])]

\* the batch [t, blank, t] of an uncached t: both positions hold the model's
\* vector, the key was written twice and holds that vector
C14_Witness ==
    /\ op = "encode_batch"
    /\ Len(arg_texts) = 3
    /\ SameTextAt(1, 3)
    /\ BlankPos(2)
    /\ MissPos(1)
    /\ arg_use_cache
    /\ result[1] = ModelVec(arg_texts[1])
    /\ result[3] = result[1]
    /\ IsZeroVector(result[2])
    /\ Cardinality({e \in 1..Len(log) : log[e] = PutEv(KeyOf(arg_texts[1]), "ok")}) = 2
    /\ cache[KeyOf(arg_texts[1])] = Stored(result[1])

\* the pending positions of the batch, in order
PendingPositions == {i \in Positions : MissPos(i)}

\* the text is pending at position i and nowhere else
PendingOnce(i) ==
    MissPos(i) /\ \A j \in PendingPositions : arg_texts[j] = arg_texts[i] => j = i

\* the writes of the call, in order
Puts == SelectSeq(log, LAMBDA e : e.ev = "put")

\* an encode_batch call with use_cache true in which no model invocation raised
BatchStored == op = "encode_batch" /\ arg_use_cache /\ ~failed

\* C15 as stated: after an encode_batch call with use_cache true in which
\* the model succeeded, the cache holds an entry under the key of the text of
\* every pending position, and for a text pending at one position only, the
\* entry's value is the vector returned at that position.
C15_Original ==
    BatchStored =>
        \A i \in PendingPositions :
            /\ KeyOf(arg_texts[i]) \in Entries(cache)
            /\ PendingOnce(i) => cache[KeyOf(arg_texts[i])].val = result[i]

\* C15 amended: in such a call one write is made per pending position, in
\* position order, each under the key of the text of its own position, and
\* no other key is written; a readable entry under the key of a pending
\* position holds exactly the vector returned at that position, also when
\* the batch holds the text twice; and when the writes under that key
\* succeeded, the entry is there and readable.
C15_StoreUnderOwnKey ==
    BatchStored =>
        /\ Len(Puts) = Cardinality(PendingPositions)
        /\ \A i \in PendingPositions :
              /\ Puts[Cardinality({j \in PendingPositions : j <= i})].key
                    = KeyOf(arg_texts[i])
              /\ cache[KeyOf(arg_texts[i])].st = "ok" =>
                    cache[KeyOf(arg_texts[i])].val = result[i]
              /\ WritesSucceeded(KeyOf(arg_texts[i])) =>
                    cache[KeyOf(arg_texts[i])] = Stored(result[i])
        /\ \A k \in Keys :
              (\A i \in PendingPositions : KeyOf(arg_texts[i]) # k) =>
                  cache[k] = cacheBefore[k]

\* a batch with a text pending twice and another text pending once, every
\* write succeeding: each key holds the vector of its own text
C15_Witness ==
    /\ BatchStored
    /\ \E i \in PendingPositions, j \in PendingPositions, l \in PendingPositions :
          /\ i < j
          /\ arg_texts[i] = arg_texts[j]
          /\ PendingOnce(l)
          /\ l > i
          /\ result[l] # result[i]
          /\ cache[KeyOf(arg_texts[i])] = Stored(result[i])
          /\ cache[KeyOf(arg_texts[l])] = Stored(result[l])

\* the pending list of the call: the texts that are neither blank nor hits,
\* in batch order
PendingTexts ==
    SelectSeq(arg_texts,
        LAMBDA t : ~BlankText(t)
                   /\ ~(arg_use_cache /\ cacheBefore[KeyOf(t)].st = "ok"))

\* the model invocations of the call, in order
Invocations == SelectSeq(log, LAMBDA e : e.ev = "model")

\* ceil(n / b)
CeilDiv(n, b) == CHOOSE m \in 0..n : m * b >= n /\ (m = 0 \/ (m - 1) * b < n)

\* the k-th slice of at most b texts of the pending list
PendingSlice(k, b) ==
    [j \in 1..Min(b, Len(PendingTexts) - (k - 1) * b) |->
        PendingTexts[(k - 1) * b + j]]

\* C17 as stated: for n pending texts and batch_size b the model is invoked
\* exactly ceil(n/b) times, the k-th invocation on the k-th slice of at most
\* b texts of the pending list.
C17_Original ==
    op = "encode_batch" =>
        /\ Len(Invocations) = CeilDiv(Len(PendingTexts), arg_batch_size)
        /\ \A k \in 1..Len(Invocations) :
              Invocations[k].batch = PendingSlice(k, arg_batch_size)

\* C17 amended: the model is invoked on the consecutive slices of at most b
\* texts of the pending list, in order, until one invocation raises or the
\* list is used up: exactly ceil(n/b) times when none raises, and exactly k
\* times when the k-th raises, the later slices not being submitted.  When
\* none raises every pending text was submitted once, and the j-th pending
\* position holds the model's vector of the j-th pending text.  With n = 0
\* the model is not invoked.
C17_ChunkedInvocations ==
    op = "encode_batch" =>
        /\ Len(PendingTexts) = Cardinality(PendingPositions)
        /\ Len(PendingTexts) = 0 => Len(Invocations) = 0
        /\ Len(Invocations) <= CeilDiv(Len(PendingTexts), arg_batch_size)
        /\ \A k \in 1..Len(Invocations) :
              /\ Invocations[k].batch = PendingSlice(k, arg_batch_size)
              /\ Len(Invocations[k].batch) \in 1..arg_batch_size
              /\ k < Len(Invocations) => Invocations[k].ok
        /\ ~failed =>
              /\ Len(Invocations) = CeilDiv(Len(PendingTexts), arg_batch_size)
              /\ \A k \in 1..Len(Invocations) : Invocations[k].ok
              /\ \A i \in PendingPositions :
                    /\ arg_texts[i]
                          = PendingTexts[Cardinality({j \in PendingPositions : j <= i})]
                    /\ result[i] = ModelVec(arg_texts[i])
        /\ failed =>
              /\ Len(Invocations) >= 1
              /\ ~Invocations[Len(Invocations)].ok

\* three pending texts and batch_size 2, next to no hit: two invocations, on
\* the first two texts and on the third
C17_Witness ==
    /\ op = "encode_batch"
    /\ ~failed
    /\ arg_batch_size = 2
    /\ Len(PendingTexts) = 3
    /\ Len(Invocations) = 2
    /\ Invocations[1].batch = <<arg_texts[1], arg_texts[2]>>
    /\ Invocations[2].batch = <<arg_texts[3]>>
    /\ arg_texts[1] # arg_texts[2]

\* C19: in every reachable state every readable cache entry holds the vector
\* the model computes for the non-blank text of its key, never the zero
\* vector, and the key of a blank text has no entry; a call in which a model
\* invocation raised wrote nothing; and a hit of a later call is therefore
\* answered with the model's vector of the text.
C19_CacheHoldsModelVectors ==
    /\ \A t \in Texts :
          /\ cache[KeyOf(t)].st = "ok" =>
                /\ ~BlankText(t)
                /\ cache[KeyOf(t)].val = ModelVec(t)
                /\ ~IsZeroVector(cache[KeyOf(t)].val)
          /\ BlankText(t) => cache[KeyOf(t)] = Absent
    /\ (EncodeCall /\ failed) =>
          /\ \A e \in 1..Len(log) : log[e].ev # "put"
          /\ cache = cacheBefore
    /\ EncodeCall =>
          \A i \in Positions :
              HitPos(i) =>
                  result[i] = ModelVec(arg_texts[i]) /\ ~IsZeroVector(result[i])

\* a batch with use_cache in which the model raised: a pending position holds
\* the zero vector and its key has no entry, next to a hit that is answered
\* with the model's vector
C19_Witness ==
    /\ op = "encode_batch"
    /\ arg_use_cache
    /\ failed
    /\ \E i \in Positions :
          /\ MissPos(i)
          /\ IsZeroVector(result[i])
          /\ cache[KeyOf(arg_texts[i])] = Absent
    /\ \E i \in Positions : HitPos(i) /\ result[i] = ModelVec(arg_texts[i])

\* C20 as stated: after an encode_batch call either every pending position
\* holds the model's vector and, with use_cache, each is in the cache, or
\* every pending position holds the zero vector and the call added no entry.
C20_Original ==
    op = "encode_batch" =>
        \/ \A i \in PendingPositions :
              /\ result[i] = ModelVec(arg_texts[i])
              /\ arg_use_cache => cache[KeyOf(arg_texts[i])] = Stored(result[i])
        \/ /\ \A i \in PendingPositions : IsZeroVector(result[i])
           /\ Entries(cache) \subseteq Entries(cacheBefore)

\* C20 amended: either no model invocation raised, every pending position
\* holds the model's vector and, with use_cache, a write of each was made
\* under its key, leaving it in the cache when the writes under that key
\* succeeded; or an invocation raised, every pending position holds the zero
\* vector, no write was made and the cache is as it was before the call,
\* whatever the earlier chunks had computed.
C20_AllOrNothing ==
    op = "encode_batch" =>
        \/ /\ ~failed
           /\ \A i \in PendingPositions :
                 /\ result[i] = ModelVec(arg_texts[i])
                 /\ arg_use_cache =>
                       /\ \E e \in 1..Len(Puts) : Puts[e].key = KeyOf(arg_texts[i])
                       /\ WritesSucceeded(KeyOf(arg_texts[i])) =>
                             cache[KeyOf(arg_texts[i])] = Stored(result[i])
           /\ arg_use_cache => Len(Puts) = Cardinality(PendingPositions)
           /\ ~arg_use_cache => (Len(Puts) = 0 /\ cache = cacheBefore)
        \/ /\ failed
           /\ \A i \in PendingPositions : IsZeroVector(result[i])
           /\ Len(Puts) = 0
           /\ cache = cacheBefore

\* a batch with use_cache whose second model invocation raised after the
\* first returned: every pending position holds the zero vector and the cache
\* is as before
C20_Witness ==
    /\ op = "encode_batch"
    /\ arg_use_cache
    /\ failed
    /\ Len(Invocations) = 2
    /\ Invocations[1].ok
    /\ ~Invocations[2].ok
    /\ Cardinality(PendingPositions) >= 2
    /\ \A i \in PendingPositions : IsZeroVector(result[i])
    /\ cache = cacheBefore

\* both concurrent calls have returned
BothDone == \A p \in Procs : proc[p].pc = "done"

\* C16 as stated: whatever the interleaving of the two calls, both return
\* the model's vector of t and the cache ends with an entry of t holding
\* that vector.
C16_Original ==
    BothDone =>
        /\ \A p \in Procs : proc[p].ret = ModelVec(conc_text)
        /\ cache[KeyOf(conc_text)] = Stored(ModelVec(conc_text))

\* C16 amended: whatever the interleaving, a call returns the model's vector
\* of t unless its own model invocation raised, in which case it returns the
\* zero vector and writes nothing; a readable entry of t never holds anything
\* but the model's vector, during the calls and after; no other key is
\* touched; and when no model invocation raised and no write failed, both
\* calls return the model's vector and the cache ends with the one entry of
\* t holding it.
C16_HarmlessRace ==
    /\ \A t \in Texts :
          cache[KeyOf(t)].st = "ok" => cache[KeyOf(t)].val = ModelVec(t)
    /\ \A p \in Procs :
          proc[p].pc = "done" =>
              /\ proc[p].failed =>
                    IsZeroVector(proc[p].ret) /\ proc[p].write = "none"
              /\ ~proc[p].failed => proc[p].ret = ModelVec(conc_text)
              /\ proc[p].hit => proc[p].write = "none"
    /\ (BothDone /\ \A p \in Procs :
                        ~proc[p].failed /\ proc[p].write \in {"none", "ok"}) =>
          /\ \A p \in Procs : proc[p].ret = ModelVec(conc_text)
          /\ cache[KeyOf(conc_text)] = Stored(ModelVec(conc_text))

\* both calls missed, invoked the model and wrote the same entry
C16_Witness ==
    /\ BothDone
    /\ \A p \in Procs :
          /\ ~proc[p].hit
          /\ proc[p].write = "ok"
          /\ proc[p].ret = ModelVec(conc_text)
    /\ cache[KeyOf(conc_text)] = Stored(ModelVec(conc_text))

\* an encode_single or encode_batch call with use_cache false
UncachedCall == EncodeCall /\ ~arg_use_cache

\* C21 as stated: a call with use_cache false neither reads nor writes the
\* cache, the cache afterwards is the cache before, and the model is invoked
\* for every non-blank text, also for one that has an entry, whatever the
\* model does.
C21_Original ==
    UncachedCall =>
        /\ \A e \in 1..Len(log) : log[e].ev \notin {"get", "put"}
        /\ cache = cacheBefore
        /\ \A i \in Positions : ~BlankPos(i) => ModelInvokedFor(arg_texts[i])

\* C21 amended: such a call neither reads nor writes the cache and leaves it
\* as it was; no position is answered from the cache; encode_single invokes
\* the model for its non-blank text; encode_batch submits the non-blank
\* texts, those with an entry too, slice by slice in batch order, every one
\* of them when no invocation raises, and those of the slices up to the
\* failing one when an invocation raises.
C21_NoCacheUse ==
    UncachedCall =>
        /\ \A e \in 1..Len(log) : log[e].ev \notin {"get", "put"}
        /\ cache = cacheBefore
        /\ \A i \in Positions :
              ~BlankPos(i) =>
                  /\ MissPos(i)
                  /\ ~failed => result[i] = ModelVec(arg_texts[i])
                  /\ failed => IsZeroVector(result[i])
                  /\ (op = "encode_single" \/ ~failed) =>
                        ModelInvokedFor(arg_texts[i])
        /\ op = "encode_batch" =>
              /\ PendingTexts = SelectSeq(arg_texts, LAMBDA t : ~BlankText(t))
              /\ \A k \in 1..Len(Invocations) :
                    Invocations[k].batch = PendingSlice(k, arg_batch_size)
              /\ failed <=> (Len(Invocations) >= 1
                                /\ ~Invocations[Len(Invocations)].ok)

\* a batch with use_cache false holding a text that has a readable entry:
\* the model is invoked for it and the cache stays as it was
C21_Witness ==
    /\ op = "encode_batch"
    /\ ~arg_use_cache
    /\ ~failed
    /\ \E i \in Positions :
          /\ ~BlankPos(i)
          /\ cacheBefore[KeyOf(arg_texts[i])].st = "ok"
          /\ ModelInvokedFor(arg_texts[i])
          /\ result[i] = ModelVec(arg_texts[i])
    /\ \E i \in Positions :
          ~BlankPos(i) /\ cacheBefore[KeyOf(arg_texts[i])].st = "absent"
    /\ cache = cacheBefore

====
